---- MODULE Spec2Model ----
(***************************************************************************)
(* Configuration resolver of ec2_config.py (class EC2Secrets, the global   *)
(* instance `secrets`, and load_ec2_config).                               *)
(*                                                                         *)
(* Text.  A Python string is modelled as a sequence of tokens.  The tokens *)
(* " " and "\n" stand for one whitespace character each; the tokens "\"",  *)
(* "'", "=", "#", "{", "}", "[", "]", ":", ",", "/" and "~" stand for that *)
(* one character; every other token (a word) stands for a non-empty run of *)
(* characters none of which is one of the above, and no two words are      *)
(* adjacent.  The empty string is << >>.  All string operations of the     *)
(* code (strip, split, startswith, lower, int, json.loads, json.dumps,     *)
(* expanduser) are computed on these sequences.                            *)
(***************************************************************************)
EXTENDS Integers, Sequences, FiniteSets, TLC

VARIABLES
    env,        \* os.environ: variable name (text) -> value (text)
    fs,         \* the filesystem: path (text) -> file
    config,     \* secrets._config: section name -> section value
    loaded,     \* secrets._loaded
    last,       \* what the most recent call did and returned
    atBuild,    \* os.environ as _build_config of the most recent load() saw it
    budget      \* how many more external changes / calls this run may make

vars == <<env, fs, config, loaded, last, atBuild, budget>>

-----------------------------------------------------------------------------
(* Python str primitives *)

DQ == "\""
SQ == "'"
Whitespace == {" ", "\n"}

RECURSIVE LStripChars(_, _)
\* str.lstrip(chars)
LStripChars(s, cs) ==
    IF s # << >> /\ Head(s) \in cs THEN LStripChars(Tail(s), cs) ELSE s

RECURSIVE RStripChars(_, _)
\* str.rstrip(chars)
RStripChars(s, cs) ==
    IF s # << >> /\ s[Len(s)] \in cs
    THEN RStripChars(SubSeq(s, 1, Len(s) - 1), cs)
    ELSE s

\* str.strip(chars): every leading and every trailing character in chars
StripChars(s, cs) == RStripChars(LStripChars(s, cs), cs)

\* str.strip()
Strip(s) == StripChars(s, Whitespace)

RECURSIVE Find(_, _, _)
\* index of the first occurrence of token c in s at or after i; 0 when none
Find(s, c, i) ==
    IF i > Len(s) THEN 0
    ELSE IF s[i] = c THEN i
    ELSE Find(s, c, i + 1)

\* str.lower() of one word
LowerWord(w) ==
    CASE w = "TRUE" -> "true"
      [] w = "True" -> "true"
      [] w = "FALSE" -> "false"
      [] OTHER -> w

\* str.lower()
Lower(s) == [i \in DOMAIN s |-> LowerWord(s[i])]

\* the decimal numerals the model uses, with their values
Numeral == [w \in {"0", "8501", "9090"} |->
               CASE w = "0" -> 0 [] w = "8501" -> 8501 [] w = "9090" -> 9090]

IntOfStripped(t) ==
    IF Len(t) = 1 /\ t[1] \in DOMAIN Numeral
    THEN [raised |-> FALSE, value |-> Numeral[t[1]]]
    ELSE [raised |-> TRUE, value |-> 0]

\* int(s): surrounding whitespace is ignored; anything but a numeral raises
\* ValueError
IntOf(s) == IntOfStripped(Strip(s))

-----------------------------------------------------------------------------
(* json.loads / json.dumps *)

JNull == [t |-> "null", v |-> << >>]
JBool(b) == [t |-> "bool", v |-> b]
JNum(n) == [t |-> "num", v |-> n]
JStr(s) == [t |-> "str", v |-> s]
JArr(xs) == [t |-> "arr", v |-> xs]
\* a dict keeps its items in insertion order: << <<key, value>>, ... >>
JObj(items) == [t |-> "obj", v |-> items]

\* bool(x) of a decoded value
Truthy(x) ==
    CASE x.t = "null" -> FALSE
      [] x.t = "bool" -> x.v
      [] x.t = "num" -> x.v # 0
      [] OTHER -> x.v # << >>

\* d[k] = v on a dict: replaces in place, or appends
DictSet(items, k, v) ==
    IF \E i \in DOMAIN items : items[i][1] = k
    THEN [i \in DOMAIN items |-> IF items[i][1] = k THEN <<k, v>> ELSE items[i]]
    ELSE Append(items, <<k, v>>)

JsonFail == [ok |-> FALSE, val |-> JNull, rest |-> << >>]
JsonOk(x, r) == [ok |-> TRUE, val |-> x, rest |-> r]

JsonLiteral(w) ==
    CASE w = "null" -> JNull
      [] w = "true" -> JBool(TRUE)
      [] w = "false" -> JBool(FALSE)
      [] OTHER -> JNum(Numeral[w])

IsJsonLiteral(w) == w \in {"null", "true", "false"} \cup DOMAIN Numeral

\* a string: a double quote, characters up to the next double quote (no raw
\* control character), the double quote at j
StringUpTo(s, j) ==
    IF j = 0 THEN JsonFail
    ELSE IF \E i \in 2..(j - 1) : s[i] = "\n" THEN JsonFail
    ELSE JsonOk(JStr(SubSeq(s, 2, j - 1)), SubSeq(s, j + 1, Len(s)))

ParseString(s) == StringUpTo(s, Find(s, DQ, 2))

SkipWs(s) == LStripChars(s, Whitespace)

RECURSIVE ParseValue(_), ParseMembers(_, _), ParseElements(_, _)
RECURSIVE AfterKey(_, _), AfterColon(_, _, _), AfterMember(_, _), AfterElement(_, _)

\* the value at the start of s (which starts with no whitespace)
ParseValue(s) ==
    IF s = << >> THEN JsonFail
    ELSE IF Head(s) = DQ THEN ParseString(s)
    ELSE IF Head(s) = "{" THEN ParseMembers(SkipWs(Tail(s)), << >>)
    ELSE IF Head(s) = "[" THEN ParseElements(SkipWs(Tail(s)), << >>)
    ELSE IF IsJsonLiteral(Head(s)) THEN JsonOk(JsonLiteral(Head(s)), Tail(s))
    ELSE JsonFail

\* the members of an object after '{' or ',', acc being those before
ParseMembers(s, acc) ==
    IF s = << >> THEN JsonFail
    ELSE IF Head(s) = "}" /\ acc = << >> THEN JsonOk(JObj(<< >>), Tail(s))
    ELSE IF Head(s) # DQ THEN JsonFail
    ELSE AfterKey(ParseString(s), acc)

\* ... after the key k: a colon and a value
AfterKey(k, acc) ==
    IF ~k.ok THEN JsonFail
    ELSE AfterColon(k.val.v, SkipWs(k.rest), acc)

AfterColon(key, s, acc) ==
    IF s = << >> \/ Head(s) # ":" THEN JsonFail
    ELSE AfterMember(ParseValue(SkipWs(Tail(s))), [key |-> key, acc |-> acc])

\* ... after the value x of the member: '}' or ',' and more members
AfterMember(x, m) ==
    IF ~x.ok \/ SkipWs(x.rest) = << >> THEN JsonFail
    ELSE IF Head(SkipWs(x.rest)) = "}"
    THEN JsonOk(JObj(DictSet(m.acc, m.key, x.val)), Tail(SkipWs(x.rest)))
    ELSE IF Head(SkipWs(x.rest)) = ","
    THEN ParseMembers(SkipWs(Tail(SkipWs(x.rest))), DictSet(m.acc, m.key, x.val))
    ELSE JsonFail

\* the elements of an array after '[' or ',', acc being those before
ParseElements(s, acc) ==
    IF s # << >> /\ Head(s) = "]" /\ acc = << >> THEN JsonOk(JArr(<< >>), Tail(s))
    ELSE AfterElement(ParseValue(s), acc)

AfterElement(x, acc) ==
    IF ~x.ok \/ SkipWs(x.rest) = << >> THEN JsonFail
    ELSE IF Head(SkipWs(x.rest)) = "]"
    THEN JsonOk(JArr(Append(acc, x.val)), Tail(SkipWs(x.rest)))
    ELSE IF Head(SkipWs(x.rest)) = ","
    THEN ParseElements(SkipWs(Tail(SkipWs(x.rest))), Append(acc, x.val))
    ELSE JsonFail

\* the whole text is one value
WholeValue(r) ==
    IF r.ok /\ SkipWs(r.rest) = << >>
    THEN [ok |-> TRUE, val |-> r.val]
    ELSE [ok |-> FALSE, val |-> JNull]

\* json.loads(s): ok = FALSE stands for json.JSONDecodeError
JsonLoads(s) == WholeValue(ParseValue(SkipWs(s)))

NumeralOf(n) == CHOOSE w \in DOMAIN Numeral : Numeral[w] = n

RECURSIVE JsonDumps(_), DumpItems(_), DumpElements(_)

\* json.dumps(x): separators ", " and ": ", items in dict order
JsonDumps(x) ==
    CASE x.t = "null" -> <<"null">>
      [] x.t = "bool" -> IF x.v THEN <<"true">> ELSE <<"false">>
      [] x.t = "num" -> <<NumeralOf(x.v)>>
      [] x.t = "str" -> <<DQ>> \o x.v \o <<DQ>>
      [] x.t = "arr" -> <<"[">> \o DumpElements(x.v) \o <<"]">>
      [] x.t = "obj" -> <<"{">> \o DumpItems(x.v) \o <<"}">>

DumpItems(items) ==
    IF items = << >> THEN << >>
    ELSE <<DQ>> \o Head(items)[1] \o <<DQ, ":", " ">> \o JsonDumps(Head(items)[2])
         \o (IF Tail(items) = << >> THEN << >>
             ELSE <<",", " ">> \o DumpItems(Tail(items)))

DumpElements(xs) ==
    IF xs = << >> THEN << >>
    ELSE JsonDumps(Head(xs))
         \o (IF Tail(xs) = << >> THEN << >>
             ELSE <<",", " ">> \o DumpElements(Tail(xs)))

-----------------------------------------------------------------------------
(* os.environ, the filesystem, os.path *)

\* a one-word string such as 'APP_PORT' or 'production'
W(w) == <<w>>

\* truthiness of os.getenv(name): set and not empty
IsSet(e, name) == W(name) \in DOMAIN e /\ e[W(name)] # << >>

\* os.getenv(name, default)
Getenv(e, name, default) == IF W(name) \in DOMAIN e THEN e[W(name)] ELSE default

\* os.environ[key] = value
Putenv(e, key, value) == (key :> value) @@ e

\* del os.environ[key]
Delenv(e, key) == [k \in DOMAIN e \ {key} |-> e[k]]

\* fs maps each existing path to [readable, lines]; open() of an unreadable
\* file raises OSError
Exists(f, path) == path \in DOMAIN f

\* the home directory of the password database, used when HOME is unset
PwDir == <<"/", "root">>

\* userhome + path[i:], or '/'
JoinHome(joined) == IF joined = << >> THEN <<"/">> ELSE joined

\* os.path.expanduser(path) for '~/...' paths
Expanduser(e, path) ==
    IF path = << >> \/ Head(path) # "~" THEN path
    ELSE JoinHome(RStripChars(IF W("HOME") \in DOMAIN e THEN e[W("HOME")] ELSE PwDir,
                              {"/"}) \o Tail(path))

\* env_paths of load(), lines 47-53
EnvPaths(e, env_file) ==
    << env_file,
       <<".env">>,
       <<"/", "etc", "/", "dbmigration", "/", ".env">>,
       Expanduser(e, <<"~", "/", ".dbmigration", "/", ".env">>),
       <<"/", "opt", "/", "dbmigration", "/", ".env">> >>

\* firebase_paths of load(), lines 62-68
FirebasePaths(e, config_file) ==
    << config_file,
       <<"firebase-config.json">>,
       <<"/", "etc", "/", "dbmigration", "/", "firebase-config.json">>,
       Expanduser(e, <<"~", "/", ".dbmigration", "/", "firebase-config.json">>),
       <<"/", "opt", "/", "dbmigration", "/", "firebase-config.json">> >>

-----------------------------------------------------------------------------
(* EC2Secrets._load_env_file *)

NoAssignment == [assign |-> FALSE, key |-> << >>, value |-> << >>]

\* lines 93-95: key, value = line.split('=', 1), '=' being at i
SplitAt(line, i) ==
    IF i = 0 THEN NoAssignment
    ELSE [assign |-> TRUE,
          key |-> Strip(SubSeq(line, 1, i - 1)),
          value |-> StripChars(StripChars(Strip(SubSeq(line, i + 1, Len(line))),
                                          {DQ}), {SQ})]

\* lines 89-92 on the stripped line
ParseStripped(line) ==
    IF line = << >> \/ Head(line) = "#" THEN NoAssignment
    ELSE SplitAt(line, Find(line, "=", 1))

\* lines 87-95: what one line of the file asks for
ParseEnvLine(raw) == ParseStripped(Strip(raw))

RECURSIVE LoadEnvLines(_, _), StoreLine(_, _, _)
\* lines 86-96
LoadEnvLines(e, lines) ==
    IF lines = << >> THEN e
    ELSE StoreLine(e, ParseEnvLine(Head(lines)), Tail(lines))

\* line 96 for the parsed line p; os.environ[''] = value raises, which ends
\* the loop (line 97)
StoreLine(e, p, rest) ==
    IF ~p.assign THEN LoadEnvLines(e, rest)
    ELSE IF p.key = << >> THEN e
    ELSE LoadEnvLines(Putenv(e, p.key, p.value), rest)

\* _load_env_file(filepath) on the file at that path
LoadEnvFile(e, file) ==
    IF ~file.readable THEN e ELSE LoadEnvLines(e, file.lines)

-----------------------------------------------------------------------------
(* EC2Secrets._load_firebase_config *)

RECURSIVE JoinLines(_)
\* f.read(): the lines, each ended by a newline
JoinLines(lines) ==
    IF lines = << >> THEN << >>
    ELSE Head(lines) \o <<"\n">> \o JoinLines(Tail(lines))

\* lines 104-106 for the decoded file r
StoreDocument(e, r) ==
    IF r.ok THEN Putenv(e, W("FIREBASE_CONFIG_JSON"), JsonDumps(r.val)) ELSE e

\* _load_firebase_config storing the text of the file as it is
LoadFirebaseConfigRaw(e, file) ==
    IF ~file.readable THEN e
    ELSE Putenv(e, W("FIREBASE_CONFIG_JSON"), JoinLines(file.lines))

\* _load_firebase_config(filepath) on the file at that path
LoadFirebaseConfig(e, file) ==
    IF ~file.readable THEN e
    ELSE StoreDocument(e, JsonLoads(JoinLines(file.lines)))

-----------------------------------------------------------------------------
(* EC2Secrets._build_config *)

\* self._config[key] = value
Put(c, key, value) == (key :> value) @@ c

\* firebase_env_mapping, lines 129-141, in dict order
FirebaseEnvMapping ==
    << <<"type", "FIREBASE_TYPE">>,
       <<"project_id", "FIREBASE_PROJECT_ID">>,
       <<"private_key_id", "FIREBASE_PRIVATE_KEY_ID">>,
       <<"private_key", "FIREBASE_PRIVATE_KEY">>,
       <<"client_email", "FIREBASE_CLIENT_EMAIL">>,
       <<"client_id", "FIREBASE_CLIENT_ID">>,
       <<"auth_uri", "FIREBASE_AUTH_URI">>,
       <<"token_uri", "FIREBASE_TOKEN_URI">>,
       <<"auth_provider_x509_cert_url", "FIREBASE_AUTH_PROVIDER_CERT_URL">>,
       <<"client_x509_cert_url", "FIREBASE_CLIENT_CERT_URL">>,
       <<"web_api_key", "FIREBASE_WEB_API_KEY">> >>

RECURSIVE FirebaseFromVars(_, _)
\* lines 143-145: the fields whose variable is set, as dict items
FirebaseFromVars(e, mapping) ==
    IF mapping = << >> THEN << >>
    ELSE
        LET m == Head(mapping)
        IN  (IF IsSet(e, m[2]) THEN << <<W(m[1]), JStr(e[W(m[2])])>> >> ELSE << >>)
            \o FirebaseFromVars(e, Tail(mapping))

DecodedOrEmpty(r) == IF r.ok THEN r.val ELSE JObj(<< >>)

\* lines 118-125: the decoded FIREBASE_CONFIG_JSON, or {}
FirebaseFromJson(e) ==
    IF IsSet(e, "FIREBASE_CONFIG_JSON")
    THEN DecodedOrEmpty(JsonLoads(e[W("FIREBASE_CONFIG_JSON")]))
    ELSE JObj(<< >>)

\* lines 127-145 with the individual variables tried first
VarsOrJson(j, fields) ==
    IF fields # << >> THEN [raised |-> "", value |-> JObj(fields)]
    ELSE [raised |-> "", value |-> j]

\* FirebaseConfig with the two sources tried in the other order
FirebaseConfigVarsFirst(e) ==
    VarsOrJson(FirebaseFromJson(e), FirebaseFromVars(e, FirebaseEnvMapping))

\* lines 127-145: the decoded value j when it is truthy, else the fields of
\* the individual variables put into it: TypeError when j is no dict
JsonOrVars(j, fields) ==
    IF Truthy(j) THEN [raised |-> "", value |-> j]
    ELSE IF j.t # "obj" /\ fields # << >> THEN [raised |-> "TypeError", value |-> j]
    ELSE IF j.t # "obj" THEN [raised |-> "", value |-> j]
    ELSE [raised |-> "", value |-> JObj(fields)]

\* lines 118-145: firebase_config
FirebaseConfig(e) ==
    JsonOrVars(FirebaseFromJson(e), FirebaseFromVars(e, FirebaseEnvMapping))

\* the dict of the fields whose variable is set
FieldsOf(e, fields) ==
    [k \in {v[1] : v \in fields} |-> e[W((CHOOSE v \in fields : v[1] = k)[2])]]

\* lines 151-157
AdminConfig(e) ==
    FieldsOf(e, {v \in {<<"email", "ADMIN_EMAIL">>, <<"password", "ADMIN_PASSWORD">>,
                        <<"key", "ADMIN_KEY">>} : IsSet(e, v[2])})

\* lines 163-168
AwsConfig(e) ==
    LET region == ("region" :> Getenv(e, "AWS_DEFAULT_REGION", W("us-east-1")))
    IN  IF IsSet(e, "AWS_ACCESS_KEY_ID")
        THEN region @@ ("access_key_id" :> e[W("AWS_ACCESS_KEY_ID")])
                    @@ ("secret_access_key" :> Getenv(e, "AWS_SECRET_ACCESS_KEY", << >>))
        ELSE region

\* line 175
AppPort(e) == IntOf(Getenv(e, "APP_PORT", W("8501")))

\* line 177
AppDebug(e) == Lower(Getenv(e, "APP_DEBUG", W("false"))) = W("true")

\* lines 173-178
AppConfig(e) ==
    [mode |-> Getenv(e, "APP_MODE", W("production")),
     port |-> AppPort(e).value,
     host |-> Getenv(e, "APP_HOST", W("0.0.0.0")),
     debug |-> AppDebug(e)]

\* lines 172-178, port being int(APP_PORT)
BuildApp(c, e, port) ==
    IF port.raised THEN [raised |-> "ValueError", config |-> c]
    ELSE [raised |-> "", config |-> Put(c, "app", AppConfig(e))]

\* lines 159-160
WithAdmin(c, admin) == IF DOMAIN admin # {} THEN Put(c, "admin", admin) ELSE c

\* lines 150-178
BuildRest(c, e) ==
    BuildApp(Put(WithAdmin(c, AdminConfig(e)), "aws", AwsConfig(e)), e, AppPort(e))

\* lines 117-178, fb being firebase_config
BuildFirebase(c, e, fb) ==
    IF fb.raised # "" THEN [raised |-> fb.raised, config |-> c]
    ELSE BuildRest(IF Truthy(fb.value) THEN Put(c, "firebase", fb.value) ELSE c, e)

\* lines 114-115
WithApiKey(c, e) ==
    IF IsSet(e, "ANTHROPIC_API_KEY")
    THEN Put(c, "ANTHROPIC_API_KEY", e[W("ANTHROPIC_API_KEY")])
    ELSE c

\* _build_config(): the sections are written in the order of the code, so an
\* exception leaves the earlier ones written
BuildConfig(c, e) == BuildFirebase(WithApiKey(c, e), e, FirebaseConfig(e))

-----------------------------------------------------------------------------
(* EC2Secrets.load *)

\* the files opened so far, and those opened later
Opened(path, rest) == [env |-> rest.env, opened |-> <<path>> \o rest.opened]

RECURSIVE EnvFileLoopNoBreak(_, _, _)
\* the loop of lines 55-59 without its break
EnvFileLoopNoBreak(e, f, paths) ==
    IF paths = << >> THEN [env |-> e, opened |-> << >>]
    ELSE IF Head(paths) # << >> /\ Exists(f, Head(paths))
    THEN Opened(Head(paths),
                EnvFileLoopNoBreak(LoadEnvFile(e, f[Head(paths)]), f, Tail(paths)))
    ELSE EnvFileLoopNoBreak(e, f, Tail(paths))

RECURSIVE EnvFileLoop(_, _, _)
\* lines 55-59: the first candidate that is given and exists is loaded, and
\* the loop ends; opened lists the paths handed to _load_env_file
EnvFileLoop(e, f, paths) ==
    IF paths = << >> THEN [env |-> e, opened |-> << >>]
    ELSE IF Head(paths) # << >> /\ Exists(f, Head(paths))
    THEN [env |-> LoadEnvFile(e, f[Head(paths)]), opened |-> <<Head(paths)>>]
    ELSE EnvFileLoop(e, f, Tail(paths))

RECURSIVE FirebaseFileLoop(_, _, _)
\* lines 70-74
FirebaseFileLoop(e, f, paths) ==
    IF paths = << >> THEN [env |-> e, opened |-> << >>]
    ELSE IF Head(paths) # << >> /\ Exists(f, Head(paths))
    THEN [env |-> LoadFirebaseConfig(e, f[Head(paths)]), opened |-> <<Head(paths)>>]
    ELSE FirebaseFileLoop(e, f, Tail(paths))

\* what load() did: the candidates, the files opened, os.environ after the
\* .env step (s1) and after the JSON step (s2), the environment seen by
\* _build_config and what it gave (b)
LoadResult(envPaths, s1, fbPaths, s2, seen, b) ==
    [ran |-> TRUE, env |-> s2.env, config |-> b.config, raised |-> b.raised,
     envPaths |-> envPaths, fbPaths |-> fbPaths,
     envOpened |-> s1.opened, fbOpened |-> s2.opened,
     afterEnvFile |-> s1.env, seen |-> seen]

\* load() assembling the configuration before it reads the files
BuildThenJsonFile(c, e, f, envPaths, s1, fbPaths) ==
    LoadResult(envPaths, s1, fbPaths, FirebaseFileLoop(s1.env, f, fbPaths), e,
               BuildConfig(c, e))

BuildThenEnvFile(c, e, f, config_file, envPaths, s1) ==
    BuildThenJsonFile(c, e, f, envPaths, s1, FirebasePaths(s1.env, config_file))

LoadBuildFirst(c, e, f, env_file, config_file) ==
    BuildThenEnvFile(c, e, f, config_file, EnvPaths(e, env_file),
                     EnvFileLoop(e, f, EnvPaths(e, env_file)))

\* lines 76-77 after the JSON step s2
AfterJsonFile(c, envPaths, s1, fbPaths, s2) ==
    LoadResult(envPaths, s1, fbPaths, s2, s2.env, BuildConfig(c, s2.env))

\* lines 61-77 after the .env step s1
AfterEnvFileStep(c, f, envPaths, s1, fbPaths) ==
    AfterJsonFile(c, envPaths, s1, fbPaths, FirebaseFileLoop(s1.env, f, fbPaths))

AfterEnvFilePaths(c, f, config_file, envPaths, s1) ==
    AfterEnvFileStep(c, f, envPaths, s1, FirebasePaths(s1.env, config_file))

\* load(env_file, config_file); None and '' are both passed as << >> (both
\* are skipped by the test of lines 56 and 71).  raised = "" when load returns.
Load(c, e, f, env_file, config_file) ==
    AfterEnvFilePaths(c, f, config_file, EnvPaths(e, env_file),
                      EnvFileLoop(e, f, EnvPaths(e, env_file)))

\* an accessor that resolves on every call
NeedsLoadAlways(isLoaded) == TRUE

\* `if not self._loaded:` of every accessor (lines 182, 188, 194, 200, 206)
NeedsLoad(isLoaded) == ~isLoaded

\* `if not self._loaded: self.load()`
EnsureLoaded(c, e, f, isLoaded) ==
    IF NeedsLoad(isLoaded) THEN Load(c, e, f, << >>, << >>)
    ELSE [ran |-> FALSE, env |-> e, config |-> c, raised |-> "",
          envPaths |-> << >>, fbPaths |-> << >>,
          envOpened |-> << >>, fbOpened |-> << >>, afterEnvFile |-> e, seen |-> e]

-----------------------------------------------------------------------------
(* the accessors on self._config *)

None == JNull

\* key in self._config
DictContains(c, key) == key \in DOMAIN c

\* self._config[key]
DictGetItem(c, key) ==
    IF key \in DOMAIN c THEN [raised |-> "", value |-> c[key]]
    ELSE [raised |-> "KeyError", value |-> None]

\* get() that forgets its default
DictGetNoDefault(c, key, default) == IF key \in DOMAIN c THEN c[key] ELSE None

\* self._config.get(key, default)
DictGet(c, key, default) == IF key \in DOMAIN c THEN c[key] ELSE default

\* self._config.keys()
DictKeySet(c) == DOMAIN c

\* self._config.items()
DictItems(c) == {<<k, c[k]>> : k \in DOMAIN c}

\* the record of a call: what was called with what, whether it ran load(),
\* what it raised ("" when it returned), what it returned, what the load()
\* it ran examined, and os.environ and _config as they were before the call
Called(op, key, default, env_file, config_file, r, raised, result, pre) ==
    [op |-> op, key |-> key, default |-> default,
     env_file |-> env_file, config_file |-> config_file,
     ranLoad |-> r.ran, raised |-> raised, result |-> result,
     envPaths |-> r.envPaths, fbPaths |-> r.fbPaths,
     envOpened |-> r.envOpened, fbOpened |-> r.fbOpened,
     afterEnvFile |-> r.afterEnvFile, pre |-> pre]

NoCall(op) ==
    [op |-> op, key |-> "", default |-> None, env_file |-> << >>,
     config_file |-> << >>, ranLoad |-> FALSE, raised |-> "", result |-> None,
     envPaths |-> << >>, fbPaths |-> << >>, envOpened |-> << >>,
     fbOpened |-> << >>, afterEnvFile |-> << >>,
     pre |-> [env |-> << >>, config |-> << >>]]

\* the state of the instance and of the process after a load() that gave r
AfterLoad(r) ==
    /\ env' = r.env
    /\ config' = r.config
    /\ loaded' = (loaded \/ (r.ran /\ r.raised = ""))
    /\ atBuild' = IF r.ran THEN r.seen ELSE atBuild

-----------------------------------------------------------------------------
(* Bounds and the inputs of a run *)

\* external changes (to os.environ or to the files) in one run
MaxChanges == 1
\* explicit load() / load_ec2_config() calls in one run
MaxCalls == 2

HomeA == <<"/", "a">>
HomeB == <<"/", "b">>

\* the text json.dumps gives for {'project_id': id}
JsonProject(id) == <<"{", DQ, "project_id", DQ, ":", " ", DQ, id, DQ, "}">>
\* the same document as someone would type it
JsonProjectTyped(id) == <<"{", " ", DQ, "project_id", DQ, ":", DQ, id, DQ, " ", "}">>
\* a document cut short
JsonCut == <<"{", DQ, "project_id", DQ, ":">>

File(lines) == [readable |-> TRUE, lines |-> lines]
Unreadable == [readable |-> FALSE, lines |-> << >>]

\* KEY=value as a line of a .env file
Line(key, value) == <<key, "=">> \o value

CwdEnv == <<".env">>
EtcEnv == <<"/", "etc", "/", "dbmigration", "/", ".env">>
HomeEnv(home) == home \o <<"/", ".dbmigration", "/", ".env">>
MyEnv == <<"my.env">>
CwdJson == <<"firebase-config.json">>
EtcJson == <<"/", "etc", "/", "dbmigration", "/", "firebase-config.json">>
MyJson == <<"my.json">>

\* the values a variable is given from outside
EnvChoices ==
    { <<"ADMIN_EMAIL", W("root@x")>>,
      <<"ANTHROPIC_API_KEY", W("sk-1")>>,
      <<"FIREBASE_PROJECT_ID", W("p-env")>>,
      <<"FIREBASE_CONFIG_JSON", JsonProject("p-json")>>,
      <<"FIREBASE_CONFIG_JSON", <<"{", "}">> >>,
      <<"FIREBASE_CONFIG_JSON", <<"0">> >>,
      <<"FIREBASE_CONFIG_JSON", <<"{", "bad">> >>,
      <<"APP_PORT", W("abc")>>,
      <<"APP_PORT", <<" ", "9090">> >>,
      <<"APP_DEBUG", W("TRUE")>>,
      <<"AWS_DEFAULT_REGION", << >> >>,
      <<"AWS_ACCESS_KEY_ID", W("AKIA")>>,
      <<"HOME", HomeB>> }

\* the changes made to variables while the process runs
EnvChanges ==
    {c \in EnvChoices : c[1] \in {"ADMIN_EMAIL", "FIREBASE_PROJECT_ID"} \/ c[2] = W("abc")}

\* the variables removed while the process runs
EnvRemovals == {W("ADMIN_EMAIL"), W("HOME")}

\* the files written while the process runs
FileChoices ==
    { <<CwdEnv, File(<< Line("ADMIN_KEY", W("k-cwd")) >>)>>,
      <<CwdJson, File(<< JsonProjectTyped("p-new") >>)>> }

\* the process environments a run starts from
InitEnvs ==
    { (W("HOME") :> HomeA),
      (W("ADMIN_EMAIL") :> W("root@x")) @@ (W("ANTHROPIC_API_KEY") :> W("sk-0")) }

EnvFiles ==
    (CwdEnv :> File(<< <<"#", " ", "settings">>,
                       Line("ADMIN_EMAIL", <<" ", DQ, "a@x", DQ>>),
                       Line("APP_PORT", <<SQ, "9090", SQ>>) >>))
        @@ (EtcEnv :> File(<< Line("ADMIN_KEY", W("k-etc")) >>))
        @@ (MyEnv :> File(<< Line("APP_MODE", <<DQ, "dev", DQ>>) >>))
        @@ (CwdJson :> File(<< JsonProjectTyped("p-cwd") >>))
        @@ (EtcJson :> File(<< JsonProjectTyped("p-etc") >>))

HomeFiles ==
    (HomeEnv(HomeA) :> File(<< Line("HOME", HomeB) >>))
        @@ (HomeEnv(HomeB) :> File(<< Line("ADMIN_KEY", W("k-b")) >>))

CutJsonFiles ==
    (CwdEnv :> File(<< Line("FIREBASE_CONFIG_JSON", JsonProject("p-dotenv")),
                       Line("FIREBASE_TYPE", W("service_account")) >>))
        @@ (CwdJson :> File(<< JsonCut >>))
        @@ (EtcJson :> File(<< JsonProjectTyped("p-etc") >>))

JsonFiles ==
    (CwdEnv :> File(<< Line("FIREBASE_CONFIG_JSON", JsonProject("p-dotenv")),
                       Line("ADMIN_PASSWORD", W("pw")) >>))
        @@ (CwdJson :> File(<< <<"{">>, <<DQ, "project_id", DQ, ":", DQ, "p-file", DQ>>,
                               <<"}">> >>))
        @@ (MyJson :> File(<< JsonProjectTyped("p-mine") >>))

UnreadableFiles ==
    (CwdEnv :> Unreadable) @@ (EtcEnv :> File(<< Line("ADMIN_KEY", W("k-etc")) >>))
        @@ (CwdJson :> Unreadable) @@ (MyJson :> File(<< JsonCut >>))

\* the filesystems a run starts from
InitFiles == {<< >>, EnvFiles, JsonFiles}

EnvFileArgs == {<< >>, MyEnv}
ConfigFileArgs == {<< >>, MyJson}
\* the keys and defaults the accessors are called with
Keys == {"aws", "missing"}
Defaults == {None, JStr(W("fallback"))}

-----------------------------------------------------------------------------
(* The state machine *)

Init ==
    /\ env \in InitEnvs
    /\ fs \in InitFiles
    /\ config = << >>           \* __init__, line 40
    /\ loaded = FALSE           \* __init__, line 41
    /\ last = NoCall("__init__")
    /\ atBuild = << >>
    /\ budget = [changes |-> MaxChanges, calls |-> MaxCalls]

\* os.environ and _config before a call
Before == [env |-> env, config |-> config]

\* lines 77-80 of load(), r being what it did
LoadReturns(r, env_file, config_file) ==
    /\ AfterLoad(r)
    /\ last' = Called("load", "", None, env_file, config_file, r, r.raised, None, Before)

\* secrets.load(env_file, config_file)
LoadCall(env_file, config_file) ==
    /\ budget.calls > 0
    /\ LoadReturns(Load(config, env, fs, env_file, config_file), env_file, config_file)
    /\ budget' = [budget EXCEPT !.calls = @ - 1]
    /\ UNCHANGED fs

\* lines 231-241 of load_ec2_config, r being what secrets.load did
Ec2Returns(r, env_file, config_file) ==
    /\ config' = r.config
    /\ loaded' = (loaded \/ r.raised = "")
    /\ atBuild' = r.seen
    /\ env' = IF r.raised = ""
              THEN Putenv(r.env, W("AWS_DEFAULT_REGION"),
                          DictGetItem(r.config, "aws").value["region"])
              ELSE r.env
    /\ last' = Called("load_ec2_config", "", None, env_file, config_file, r,
                      r.raised, None, Before)

\* load_ec2_config(env_file, config_file), lines 230-241
LoadEc2Config(env_file, config_file) ==
    /\ budget.calls > 0
    /\ Ec2Returns(Load(config, env, fs, env_file, config_file), env_file, config_file)
    /\ budget' = [budget EXCEPT !.calls = @ - 1]
    /\ UNCHANGED fs

\* an accessor op(key, default) returns result, or raises: r is what its
\* load() did, if it ran one
AccessorReturns(op, key, default, r, raised, result) ==
    /\ AfterLoad(r)
    /\ last' = Called(op, key, default, << >>, << >>, r,
                      IF r.raised = "" THEN raised ELSE r.raised,
                      IF r.raised = "" THEN result ELSE None,
                      Before)
    /\ UNCHANGED <<fs, budget>>

ContainsReturns(key, r) ==
    AccessorReturns("__contains__", key, None, r, "", DictContains(r.config, key))

\* key in secrets
ContainsCall(key) == ContainsReturns(key, EnsureLoaded(config, env, fs, loaded))

GetItemOutcome(key, r, x) ==
    AccessorReturns("__getitem__", key, None, r, x.raised, x.value)

GetItemReturns(key, r) == GetItemOutcome(key, r, DictGetItem(r.config, key))

\* secrets[key]
GetItemCall(key) == GetItemReturns(key, EnsureLoaded(config, env, fs, loaded))

GetReturns(key, default, r) ==
    AccessorReturns("get", key, default, r, "", DictGet(r.config, key, default))

\* secrets.get(key, default)
GetCall(key, default) == GetReturns(key, default, EnsureLoaded(config, env, fs, loaded))

KeysReturns(r) == AccessorReturns("keys", "", None, r, "", DictKeySet(r.config))

\* secrets.keys()
KeysCall == KeysReturns(EnsureLoaded(config, env, fs, loaded))

ItemsReturns(r) == AccessorReturns("items", "", None, r, "", DictItems(r.config))

\* secrets.items()
ItemsCall == ItemsReturns(EnsureLoaded(config, env, fs, loaded))

\* another part of the process, or its launcher, sets a variable
SetEnvVar(name, value) ==
    /\ budget.changes > 0
    /\ Getenv(env, name, <<"(unset)">>) # value
    /\ env' = Putenv(env, W(name), value)
    /\ last' = NoCall("setenv")
    /\ budget' = [budget EXCEPT !.changes = @ - 1]
    /\ UNCHANGED <<fs, config, loaded, atBuild>>

\* ... or removes one
UnsetEnvVar(key) ==
    /\ budget.changes > 0
    /\ key \in DOMAIN env
    /\ env' = Delenv(env, key)
    /\ last' = NoCall("unsetenv")
    /\ budget' = [budget EXCEPT !.changes = @ - 1]
    /\ UNCHANGED <<fs, config, loaded, atBuild>>

\* an outside party writes a file
WriteFile(path, file) ==
    /\ budget.changes > 0
    /\ ~(Exists(fs, path) /\ fs[path] = file)
    /\ fs' = (path :> file) @@ fs
    /\ last' = NoCall("write")
    /\ budget' = [budget EXCEPT !.changes = @ - 1]
    /\ UNCHANGED <<env, config, loaded, atBuild>>

\* ... or removes one
RemoveFile(path) ==
    /\ budget.changes > 0
    /\ Exists(fs, path)
    /\ fs' = [q \in DOMAIN fs \ {path} |-> fs[q]]
    /\ last' = NoCall("remove")
    /\ budget' = [budget EXCEPT !.changes = @ - 1]
    /\ UNCHANGED <<env, config, loaded, atBuild>>

Next ==
    \/ LoadCall(<< >>, << >>)
    \/ LoadEc2Config(<< >>, << >>)
    \/ \E k \in Keys : ContainsCall(k)
    \/ \E k \in Keys : GetItemCall(k)
    \/ \E k \in Keys, d \in Defaults : GetCall(k, d)
    \/ KeysCall
    \/ ItemsCall
    \/ \E c \in EnvChanges : SetEnvVar(c[1], c[2])
    \/ \E k \in EnvRemovals : UnsetEnvVar(k)
    \/ \E c \in FileChoices : WriteFile(c[1], c[2])
    \/ \E p \in {CwdEnv, CwdJson} : RemoveFile(p)

Spec == Init /\ [][Next]_vars

-----------------------------------------------------------------------------
(* One resolution after another, from every starting environment *)

\* HOME, and at most two more variables set
StartEnvs ==
    { Putenv(Putenv((W("HOME") :> HomeA), W(c[1]), c[2]), W(d[1]), d[2]) :
          c \in EnvChoices, d \in EnvChoices \cup {<<"HOME", HomeA>>} }

StartFiles == {<< >>, EnvFiles, HomeFiles, CutJsonFiles, JsonFiles, UnreadableFiles}

InitLoad ==
    /\ env \in StartEnvs
    /\ fs \in StartFiles
    /\ config = << >>
    /\ loaded = FALSE
    /\ last = NoCall("__init__")
    /\ atBuild = << >>
    /\ budget = [changes |-> 0, calls |-> MaxCalls]

NextLoad ==
    \/ \E a \in EnvFileArgs, b \in ConfigFileArgs : LoadCall(a, b)
    \/ \E a \in EnvFileArgs, b \in ConfigFileArgs : LoadEc2Config(a, b)

SpecLoad == InitLoad /\ [][NextLoad]_vars

-----------------------------------------------------------------------------
(* One .env file of every short content, resolved once *)

\* tokens of a line of the file
MaxLineLen == 5

LineAlphabet == {"K", "v", "=", DQ, SQ, " ", "#"}

EnvLines == UNION {[1..n -> LineAlphabet] : n \in 0..MaxLineLen}

InitEnvFile ==
    /\ env \in {<< >>, (W("K") :> W("old"))}
    /\ \E line \in EnvLines : fs = (CwdEnv :> File(<< line, Line("Z", W("1")) >>))
    /\ config = << >>
    /\ loaded = FALSE
    /\ last = NoCall("__init__")
    /\ atBuild = << >>
    /\ budget = [changes |-> 0, calls |-> 1]

NextEnvFile == LoadCall(<< >>, << >>)

SpecEnvFile == InitEnvFile /\ [][NextEnvFile]_vars

-----------------------------------------------------------------------------
(* The claims *)

Loads == {"load", "load_ec2_config"}
Accessors == {"__contains__", "__getitem__", "get", "keys", "items"}
\* what a load() that fails inside an accessor raises
LoadErrors == {"ValueError", "TypeError"}

\* the variables each optional section is built from
SectionSources(k) ==
    CASE k = "ANTHROPIC_API_KEY" -> {"ANTHROPIC_API_KEY"}
      [] k = "admin" -> {"ADMIN_EMAIL", "ADMIN_PASSWORD", "ADMIN_KEY"}
      [] k = "firebase" ->
            {"FIREBASE_CONFIG_JSON"}
                \cup {FirebaseEnvMapping[i][2] : i \in DOMAIN FirebaseEnvMapping}

\* C1: in every state where the instance is loaded, 'aws' (with 'region') and
\* 'app' (with 'mode', 'port', 'host', 'debug') are present, and each of
\* 'ANTHROPIC_API_KEY', 'firebase' and 'admin' is present only if one of its
\* source variables was set (non-empty) at the most recent load.
C1_SectionsFollowSources ==
    loaded =>
        /\ "aws" \in DOMAIN config
        /\ "region" \in DOMAIN config["aws"]
        /\ "app" \in DOMAIN config
        /\ DOMAIN config["app"] = {"mode", "port", "host", "debug"}
        /\ \A k \in {"ANTHROPIC_API_KEY", "firebase", "admin"} :
              k \in DOMAIN config => \E v \in SectionSources(k) : IsSet(atBuild, v)

\* C4: every load() / load_ec2_config() call completes without raising and
\* leaves the instance marked loaded, whatever the variables and files hold.
C4_LoadNeverRaises ==
    last.op \in Loads => (last.raised = "" /\ loaded)

\* C8: a load() (or load_ec2_config()) repeated at once with the same
\* arguments leaves the Resolved Configuration and the environment-variable
\* table as the first call left them.
C8_ReloadIdempotent ==
    [][(/\ last.op \in Loads
        /\ last'.op = last.op
        /\ last'.env_file = last.env_file
        /\ last'.config_file = last.config_file)
       => (config' = config /\ env' = env)]_vars

\* the line declares a variable: not blank, no comment, an '=' in it
Declares(line) ==
    /\ Strip(line) # << >>
    /\ Head(Strip(line)) # "#"
    /\ Find(Strip(line), "=", 1) # 0

\* the text before the first '=', trimmed
DeclaredKey(line) ==
    Strip(SubSeq(Strip(line), 1, Find(Strip(line), "=", 1) - 1))

\* the text after the first '=', trimmed, less one layer of matching
\* surrounding quotes
DeclaredValue(line) ==
    LET t == Strip(SubSeq(Strip(line), Find(Strip(line), "=", 1) + 1, Len(Strip(line))))
    IN  IF Len(t) >= 2 /\ t[1] \in {DQ, SQ} /\ t[Len(t)] = t[1]
        THEN SubSeq(t, 2, Len(t) - 1)
        ELSE t

\* a variable name: one word
IsName(key) == Len(key) = 1 /\ key[1] \notin {DQ, SQ, "#", " ", "\n"}

\* C7: after _load_env_file, for every line KEY=VALUE of the file (not blank,
\* not a comment, KEY declared once, every declared key a name), the
\* variable KEY holds VALUE trimmed and with exactly one layer of matching
\* surrounding quotes removed; a value without a matching pair is stored as
\* trimmed.
C7_EnvLinesStored ==
    (last.op = "load" /\ last.envOpened # << >> /\ fs[last.envOpened[1]].readable) =>
        LET lines == fs[last.envOpened[1]].lines
            declaring == {i \in DOMAIN lines : Declares(lines[i])}
        IN  (\A i \in declaring : IsName(DeclaredKey(lines[i]))) =>
                \A i \in declaring :
                    (\A j \in declaring \ {i} :
                        DeclaredKey(lines[j]) # DeclaredKey(lines[i])) =>
                        /\ DeclaredKey(lines[i]) \in DOMAIN env
                        /\ env[DeclaredKey(lines[i])] = DeclaredValue(lines[i])

\* FIREBASE_CONFIG_JSON as _build_config saw it, decoded
SeenJson == IF IsSet(atBuild, "FIREBASE_CONFIG_JSON")
            THEN JsonLoads(atBuild[W("FIREBASE_CONFIG_JSON")])
            ELSE [ok |-> FALSE, val |-> JNull]

\* the fields the individual FIREBASE_* variables give, as _build_config saw them
SeenFields == FirebaseFromVars(atBuild, FirebaseEnvMapping)

\* C2 as stated: whenever FIREBASE_CONFIG_JSON holds valid JSON and an
\* individual FIREBASE_* variable is set, the 'firebase' section (of a load
\* that returns) is the decoded JSON value.
C2_AnyValidJsonWins ==
    (last.op \in Loads /\ last.raised = "" /\ SeenJson.ok /\ SeenFields # << >>) =>
        ("firebase" \in DOMAIN config /\ config["firebase"] = SeenJson.val)

\* C2 amended: whenever FIREBASE_CONFIG_JSON holds valid JSON that decodes to
\* a non-empty value and an individual FIREBASE_* variable is set, the
\* 'firebase' section is the decoded JSON value, with no field of the
\* individual variables.
C2_NonEmptyJsonWins ==
    (last.op \in Loads /\ SeenJson.ok /\ Truthy(SeenJson.val) /\ SeenFields # << >>) =>
        ("firebase" \in DOMAIN config /\ config["firebase"] = SeenJson.val)

\* C2 witness: a load with a non-empty JSON document in FIREBASE_CONFIG_JSON
\* and FIREBASE_PROJECT_ID set to another project gave the document's section.
C2_Witness ==
    /\ last.op \in Loads
    /\ SeenJson.ok /\ Truthy(SeenJson.val)
    /\ IsSet(atBuild, "FIREBASE_PROJECT_ID")
    /\ "firebase" \in DOMAIN config
    /\ config["firebase"] = SeenJson.val
    /\ config["firebase"] # JObj(SeenFields)

\* the file cannot be opened, or is not valid JSON
Malformed(file) == ~file.readable \/ ~JsonLoads(JoinLines(file.lines)).ok

\* the first existing JSON credential candidate of the last load is malformed
BadJsonFileFirst ==
    /\ last.op \in Loads
    /\ last.fbOpened # << >>
    /\ Malformed(fs[last.fbOpened[1]])

\* C3 as stated: when the first existing JSON credential candidate is
\* malformed, load() completes and the 'firebase' section, if present, holds
\* only fields taken from the individual FIREBASE_* variables, whatever
\* FIREBASE_CONFIG_JSON held before the load or was given by the .env file.
C3_OnlyIndividualFields ==
    BadJsonFileFirst =>
        /\ last.raised = ""
        /\ "firebase" \in DOMAIN config => config["firebase"] = JObj(SeenFields)

\* C3 amended: when the first existing JSON credential candidate is malformed,
\* the file raises nothing and contributes nothing: FIREBASE_CONFIG_JSON
\* keeps the value it had after the .env step; the 'firebase' section is the
\* decoded value of that variable when it decodes to a non-empty value;
\* otherwise, when an individual FIREBASE_* variable is set (and the variable
\* did not decode to an empty value that is no object), it holds exactly the
\* fields of the individual variables; otherwise this load writes no
\* 'firebase' section.
C3_BadFileContributesNothing ==
    BadJsonFileFirst =>
        LET e == last.afterEnvFile
            j == IF IsSet(e, "FIREBASE_CONFIG_JSON")
                 THEN JsonLoads(e[W("FIREBASE_CONFIG_JSON")])
                 ELSE [ok |-> FALSE, val |-> JNull]
            fields == FirebaseFromVars(e, FirebaseEnvMapping)
        IN  /\ atBuild = e
            /\ IF j.ok /\ Truthy(j.val)
               THEN "firebase" \in DOMAIN config /\ config["firebase"] = j.val
               ELSE IF fields # << >> /\ (~j.ok \/ j.val.t = "obj")
               THEN "firebase" \in DOMAIN config /\ config["firebase"] = JObj(fields)
               ELSE /\ ("firebase" \in DOMAIN config) = ("firebase" \in DOMAIN last.pre.config)
                    /\ "firebase" \in DOMAIN config =>
                          config["firebase"] = last.pre.config["firebase"]

\* C3 witness: the first existing JSON credential file is cut short, the .env
\* file gave FIREBASE_CONFIG_JSON a document and FIREBASE_TYPE a value, and
\* the section is the document, not the field.
C3_Witness ==
    /\ BadJsonFileFirst
    /\ fs[last.fbOpened[1]].readable
    /\ last.envOpened # << >>
    /\ ~IsSet(last.pre.env, "FIREBASE_CONFIG_JSON")
    /\ SeenJson.ok /\ Truthy(SeenJson.val)
    /\ SeenFields # << >>
    /\ "firebase" \in DOMAIN config
    /\ config["firebase"] = SeenJson.val

\* the candidates of a load with argument arg, HOME being home
EnvCandidates(arg, home) ==
    <<arg, CwdEnv, EtcEnv, HomeEnv(home), <<"/", "opt", "/", "dbmigration", "/", ".env">> >>
JsonCandidates(arg, home) ==
    <<arg, CwdJson, EtcJson, home \o <<"/", ".dbmigration", "/", "firebase-config.json">>,
      <<"/", "opt", "/", "dbmigration", "/", "firebase-config.json">> >>

\* the positions of the candidates that are given and exist
Existing(paths) == {i \in DOMAIN paths : paths[i] # << >> /\ Exists(fs, paths[i])}

Min(S) == CHOOSE i \in S : \A j \in S : i <= j

\* the first candidate that exists, as the list of files opened
FirstExisting(paths) ==
    IF Existing(paths) = {} THEN << >> ELSE <<paths[Min(Existing(paths))]>>

\* the variables the lines of a file declare
DeclaredKeys(file) ==
    {DeclaredKey(file.lines[i]) : i \in {n \in DOMAIN file.lines : Declares(file.lines[n])}}

HomeOf(e) == IF W("HOME") \in DOMAIN e THEN e[W("HOME")] ELSE PwDir

\* C6: one load() parses at most one .env candidate and at most one JSON
\* credential candidate: of the candidates in their fixed order (explicit
\* path, current directory, then the three absolute paths) the first that
\* exists, and no later one, so a variable declared only in a .env file of
\* lower precedence is not placed in the environment.
C6_FirstCandidateOnly ==
    last.op \in Loads =>
        LET envc == EnvCandidates(last.env_file, HomeOf(last.pre.env))
            jsonc == JsonCandidates(last.config_file, HomeOf(last.afterEnvFile))
        IN  /\ last.envOpened = FirstExisting(envc)
            /\ last.fbOpened = FirstExisting(jsonc)
            /\ \A i \in Existing(envc) :
                  i # Min(Existing(envc)) =>
                      \A k \in DeclaredKeys(fs[envc[i]]) \ DeclaredKeys(fs[last.envOpened[1]]) :
                          k \notin DOMAIN last.pre.env =>
                              /\ k \notin DOMAIN last.afterEnvFile
                              /\ k \notin {W("FIREBASE_CONFIG_JSON"), W("AWS_DEFAULT_REGION")}
                                    => k \notin DOMAIN env

\* C6 witness: two .env candidates and two JSON candidates exist, the first
\* of each was opened and read (ADMIN_EMAIL is as the first .env file gives
\* it), and ADMIN_KEY, declared by the second .env file only, is not set.
C6_Witness ==
    /\ last.op \in Loads
    /\ Cardinality(Existing(last.envPaths)) >= 2
    /\ Cardinality(Existing(last.fbPaths)) >= 2
    /\ Len(last.envOpened) = 1 /\ Len(last.fbOpened) = 1
    /\ fs[last.envOpened[1]].readable
    /\ W("ADMIN_EMAIL") \in DeclaredKeys(fs[last.envOpened[1]])
    /\ IsSet(env, "ADMIN_EMAIL")
    /\ \E i \in Existing(last.envPaths) :
          /\ last.envPaths[i] # last.envOpened[1]
          /\ W("ADMIN_KEY") \in DeclaredKeys(fs[last.envPaths[i]])
    /\ W("ADMIN_KEY") \notin DOMAIN env

\* the first existing JSON credential candidate of the last load is readable
\* and well-formed
GoodJsonFileFirst ==
    /\ last.op \in Loads
    /\ last.fbOpened # << >>
    /\ ~Malformed(fs[last.fbOpened[1]])

\* what that file holds, decoded
FileDocument == JsonLoads(JoinLines(fs[last.fbOpened[1]].lines)).val

\* the variables the .env file of the last load wrote
WrittenByEnvFile ==
    IF last.envOpened = << >> THEN {}
    ELSE DeclaredKeys(fs[last.envOpened[1]]) \cap DOMAIN last.afterEnvFile

\* C10: within one load() the .env file is read first, then the JSON
\* credential file, then the configuration is assembled: when the first
\* existing JSON candidate is readable and well-formed, _build_config sees
\* FIREBASE_CONFIG_JSON as the serialization of that file (so a non-empty
\* document is the 'firebase' section), whatever the variable held before or
\* was given by the .env file; and every variable the .env file wrote is seen
\* by _build_config of the same load (so the 'admin' fields it wrote are in
\* the section).
C10_FilesBeforeAssembly ==
    last.op \in Loads =>
        /\ GoodJsonFileFirst =>
              /\ W("FIREBASE_CONFIG_JSON") \in DOMAIN atBuild
              /\ atBuild[W("FIREBASE_CONFIG_JSON")] = JsonDumps(FileDocument)
              /\ Truthy(FileDocument) =>
                    ("firebase" \in DOMAIN config /\ config["firebase"] = FileDocument)
        /\ \A k \in WrittenByEnvFile :
              /\ k \in DOMAIN atBuild
              /\ (k = W("FIREBASE_CONFIG_JSON") /\ GoodJsonFileFirst)
                    \/ atBuild[k] = last.afterEnvFile[k]
        /\ last.raised # "TypeError" =>
              \A v \in {<<"email", "ADMIN_EMAIL">>, <<"password", "ADMIN_PASSWORD">>,
                        <<"key", "ADMIN_KEY">>} :
                  (W(v[2]) \in WrittenByEnvFile /\ last.afterEnvFile[W(v[2])] # << >>) =>
                      /\ "admin" \in DOMAIN config
                      /\ v[1] \in DOMAIN config["admin"]
                      /\ config["admin"][v[1]] = last.afterEnvFile[W(v[2])]

\* C10 witness: the .env file gave FIREBASE_CONFIG_JSON one document and
\* ADMIN_PASSWORD a value, the JSON credential file holds another document,
\* and the load gave the file's document and the password.
C10_Witness ==
    /\ GoodJsonFileFirst
    /\ {W("FIREBASE_CONFIG_JSON"), W("ADMIN_PASSWORD")} \subseteq WrittenByEnvFile
    /\ last.afterEnvFile[W("FIREBASE_CONFIG_JSON")] # atBuild[W("FIREBASE_CONFIG_JSON")]
    /\ JoinLines(fs[last.fbOpened[1]].lines) # atBuild[W("FIREBASE_CONFIG_JSON")]
    /\ "firebase" \in DOMAIN config /\ config["firebase"] = FileDocument
    /\ "admin" \in DOMAIN config /\ "password" \in DOMAIN config["admin"]

\* C5: after an accessor call on a loaded instance (one whose own load(), if
\* it ran one, returned): for a key that is no top-level key, __getitem__
\* raised KeyError and get returned its default; for a key that is one, both
\* returned the section and __contains__ returned true; __contains__ is true
\* exactly for the keys of keys(), and items() are the sections by key.
C5_AccessorsAgree ==
    (last.op \in Accessors /\ last.raised \notin LoadErrors) =>
        /\ loaded
        /\ last.op = "__getitem__" =>
              IF last.key \in DOMAIN config
              THEN last.raised = "" /\ last.result = config[last.key]
              ELSE last.raised = "KeyError"
        /\ last.op = "get" =>
              /\ last.raised = ""
              /\ IF last.key \in DOMAIN config
                 THEN last.result = config[last.key]
                 ELSE last.result = last.default
        /\ last.op = "__contains__" =>
              /\ last.raised = ""
              /\ last.result = (last.key \in DOMAIN config)
              /\ last.result = (last.key \in DictKeySet(config))
        /\ last.op = "keys" => (last.raised = "" /\ last.result = DOMAIN config)
        /\ last.op = "items" =>
              (last.raised = "" /\ last.result = {<<k, config[k]>> : k \in DOMAIN config})

\* C5 witness: get of an absent key with a default that is not None returned
\* the default.
C5_Witness ==
    /\ loaded
    /\ last.op = "get"
    /\ last.key \notin DOMAIN config
    /\ last.default # None
    /\ last.result = last.default

\* C9: an accessor called on an instance that is not loaded runs load() with
\* no arguments, and one called on a loaded instance runs no load() and
\* leaves the Resolved Configuration and the environment-variable table as
\* they are; the loaded flag never returns to false; on a loaded instance
\* only load() / load_ec2_config() change the configuration.
C9_AccessorsLoadOnce ==
    [][/\ loaded => loaded'
       /\ last'.op \in Accessors =>
             /\ last'.ranLoad = ~loaded
             /\ last'.ranLoad =>
                   (last'.envPaths[1] = << >> /\ last'.fbPaths[1] = << >>)
             /\ loaded => (config' = config /\ env' = env)
       /\ (loaded /\ config' # config) => last'.op \in Loads]_vars

\* C9 witness: after the load ADMIN_EMAIL was set from outside, an accessor
\* was called, it ran no load(), and the configuration has no 'admin' section.
C9_Witness ==
    /\ loaded
    /\ last.op \in Accessors
    /\ ~last.ranLoad
    /\ IsSet(env, "ADMIN_EMAIL")
    /\ ~IsSet(atBuild, "ADMIN_EMAIL")
    /\ "admin" \notin DOMAIN config

====
